---- MODULE Spec2Model ----
(***************************************************************************)
(* Model of music/main.py: the dispatch function convert_link and the      *)
(* three Telegram handlers start, handle_message and inline_convert.       *)
(* The yt2spotify services, the Converter and the chat framework are       *)
(* external collaborators: each of their calls is an environment choice    *)
(* (return a value or raise), recorded in env for the update being         *)
(* handled.  One update is handled at a time; its observable effects       *)
(* (calls to reply_text / answer_inline_query, log records, an exception   *)
(* leaving the handler) are recorded until the dispatcher takes the next   *)
(* update.                                                                 *)
(***************************************************************************)
EXTENDS Integers, Sequences, FiniteSets

VARIABLES pc, update, env, dispatch, replies, answers, log, escaped

vars == <<pc, update, env, dispatch, replies, answers, log, escaped>>

(* ---------------- bounds of the explored inputs ---------------- *)
\* longest result list the converter returns
MaxResults == 4
\* longest `results` attribute carried by a returned object
MaxNested == 4

(* ---------------- program constants ---------------- *)
\* the slice [:3] of inline_convert
MaxCards == 3

UnsupportedMsg == "Unsupported link. Please provide a valid Spotify or YouTube Music link."
NoResultsMsg == "No results found for the given link."
ConvErrorMsg == "An error occurred while converting the link. Please try again later."
InlineErrorMsg == "An error occurred while processing your request."
WelcomeMsg == "Welcome! Send me a Spotify or YouTube Music link, and I'll convert it for you."
ErrorTitle == "Error"
ConvLogPrefix == "Error during link conversion"
InlineLogPrefix == "Error during inline query"

(* ---------------- inputs ---------------- *)
Texts == {"", "https://open.spotify.com/track/abc123", "not a link"}
QueryIds == {"q1", "q2"}
URLs == {"https://music.youtube.com/watch?v=xyz", "https://open.spotify.com/track/xyz"}
ExcTexts == {"boom", "timeout"}
CallOutcomes == {"ok", "raise"}
DetectOutcomes == {"true", "false", "raise"}

Min(a, b) == IF a < b THEN a ELSE b

\* url of the i-th further candidate
CandURL(i) == IF i % 2 = 0 THEN "https://music.youtube.com/watch?v=xyz"
              ELSE "https://open.spotify.com/track/xyz"

\* An object returned by the converter.  attrs: the MusicItem fields (url,
\* description1..3, art_url) can be read; hasResults: the object carries an
\* attribute named `results`.
MkItem(u, a, h, r) ==
  [url |-> u, description1 |-> "Song", attrs |-> a, hasResults |-> h, results |-> r]

PlainItem(u, a) == MkItem(u, a, FALSE, <<>>)

NoItem == MkItem("", FALSE, FALSE, <<>>)

\* a `results` attribute of length n whose element number bad (0: none) has
\* no MusicItem fields
NestedList(n, bad) == [i \in 1..n |-> PlainItem(CandURL(i), i # bad)]

NestedLists == {NestedList(n, bad) : n \in 0..MaxNested, bad \in 0..MaxNested}

Items == {MkItem(u, a, FALSE, <<>>) : u \in URLs, a \in BOOLEAN}
         \cup {MkItem(u, a, TRUE, r) : u \in URLs, a \in BOOLEAN, r \in NestedLists}

\* the converter's ordered candidate lists
ResultLists == {<<>>} \cup
  {<<first>> \o [i \in 1..n |-> PlainItem(CandURL(i), TRUE)] :
      first \in Items, n \in 0..(MaxResults - 1)}

\* what converter.convert(link) does: raise, return an object without a
\* `results` attribute, or return one with a list
ConvOutcomes ==
  {[kind |-> "raise", results |-> <<>>], [kind |-> "noattr", results |-> <<>>]}
  \cup {[kind |-> "result", results |-> l] : l \in ResultLists}

Envs == [sp : DetectOutcomes, yt : DetectOutcomes, byNames : CallOutcomes,
         conv : ConvOutcomes, exc : ExcTexts, send : CallOutcomes]

\* the collaborators of the welcome handler: only the framework's send
StartEnvs == {e \in Envs : e.sp = "false" /\ e.yt = "false" /\ e.byNames = "ok"
                           /\ e.conv = [kind |-> "noattr", results |-> <<>>]
                           /\ e.exc = "boom"}

(* ---------------- convert_link ---------------- *)
\* outcome of a call of convert_link
Outcome(raised, isStr, text, item, calls, lg) ==
  [called |-> TRUE, raised |-> raised, isStr |-> isStr, text |-> text,
   item |-> item, calls |-> calls, log |-> lg]

NoDispatch ==
  [called |-> FALSE, raised |-> FALSE, isStr |-> FALSE, text |-> "",
   item |-> NoItem, calls |-> <<>>, log |-> <<>>]

\* the detection loop: "raise" when a detect call raises, "none" when the
\* loop ends without break
from_service(e) ==
  IF e.sp = "raise" THEN "raise"
  ELSE IF e.sp = "true" THEN "spotify"
  ELSE IF e.yt = "raise" THEN "raise"
  ELSE IF e.yt = "true" THEN "youtube_music"
  ELSE "none"

to_service_swapped(from) == IF from = "spotify" THEN "spotify" ELSE "youtube_music"

to_service(from) == IF from = "spotify" THEN "youtube_music" ELSE "spotify"

no_service_falls_through(e) == Outcome(FALSE, TRUE, NoResultsMsg, NoItem, <<>>, <<>>)

\* the else branch of the detection loop
no_service(e) == Outcome(FALSE, TRUE, UnsupportedMsg, NoItem, <<>>, <<>>)

except_shows_exception(e, calls) ==
  Outcome(FALSE, TRUE, e.exc, NoItem, calls, <<[msg |-> ConvLogPrefix, exc |-> e.exc]>>)

\* the except clause: log, return the generic message
except_Exception(e, calls) ==
  Outcome(FALSE, TRUE, ConvErrorMsg, NoItem, calls,
          <<[msg |-> ConvLogPrefix, exc |-> e.exc]>>)

first_result_last(conv, calls) ==
  IF conv.kind = "result" /\ Len(conv.results) > 1
  THEN Outcome(FALSE, FALSE, "", conv.results[Len(conv.results)], calls, <<>>)
  ELSE Outcome(FALSE, TRUE, NoResultsMsg, NoItem, calls, <<>>)

\* the check of result.results and the selection of its first element
first_result(conv, calls) ==
  IF conv.kind = "result" /\ Len(conv.results) > 0
  THEN Outcome(FALSE, FALSE, "", conv.results[1], calls, <<>>)
  ELSE Outcome(FALSE, TRUE, NoResultsMsg, NoItem, calls, <<>>)

convert_link(link, e) ==
  LET from == from_service(e) IN
  IF from = "raise" THEN Outcome(TRUE, FALSE, e.exc, NoItem, <<>>, <<>>)
  ELSE IF from = "none" THEN no_service(e)
  ELSE LET calls == <<[from |-> from, to |-> to_service(from), link |-> link]>> IN
       IF e.byNames = "raise" \/ e.conv.kind = "raise"
       THEN except_Exception(e, calls)
       ELSE first_result(e.conv, calls)

(* ---------------- handlers ---------------- *)
Handled(d, rs, as, lg, esc) ==
  [dispatch |-> d, replies |-> rs, answers |-> as, log |-> lg, escaped |-> esc]

start(e) == Handled(NoDispatch, <<WelcomeMsg>>, <<>>, <<>>, e.send = "raise")

handle_message(text, e) ==
  LET d == convert_link(text, e) IN
  IF d.raised THEN Handled(d, <<>>, <<>>, d.log, TRUE)
  ELSE IF d.isStr THEN Handled(d, <<d.text>>, <<>>, d.log, e.send = "raise")
  ELSE IF ~d.item.attrs THEN Handled(d, <<>>, <<>>, d.log, TRUE)
  ELSE Handled(d, <<d.item.url>>, <<>>, d.log, e.send = "raise")

ErrorCard(text) == [title |-> ErrorTitle, content |-> text]

ResultCard(item) == [title |-> item.description1, content |-> item.url]

top_results_unlimited(s) == s

\* the slice [:3]
top_results(s) == SubSeq(s, 1, Min(Len(s), MaxCards))

\* getattr(converted_music, 'results', [])
getattr_results(item) == IF item.hasResults THEN item.results ELSE <<>>

\* index of the first element whose fields cannot be read, 0 if none
FirstBad(s) ==
  IF \E i \in 1..Len(s) : ~s[i].attrs
  THEN CHOOSE i \in 1..Len(s) : ~s[i].attrs /\ \A j \in 1..(i - 1) : s[j].attrs
  ELSE 0

InlineLog(e) == <<[msg |-> InlineLogPrefix, exc |-> e.exc]>>

\* the try block and its except clause: the cards and the log records
inline_cards(query, e) ==
  LET d == convert_link(query, e) IN
  IF d.raised
  THEN [dispatch |-> d, cards |-> <<ErrorCard(InlineErrorMsg)>>, log |-> d.log \o InlineLog(e)]
  ELSE IF d.isStr
  THEN [dispatch |-> d, cards |-> <<ErrorCard(d.text)>>, log |-> d.log]
  ELSE LET its == top_results(getattr_results(d.item))
           bad == FirstBad(its) IN
       IF bad = 0
       THEN [dispatch |-> d, cards |-> [i \in 1..Len(its) |-> ResultCard(its[i])],
             log |-> d.log]
       ELSE [dispatch |-> d,
             cards |-> [i \in 1..(bad - 1) |-> ResultCard(its[i])]
                       \o <<ErrorCard(InlineErrorMsg)>>,
             log |-> d.log \o InlineLog(e)]

handles_every_query(query) == TRUE

\* `if not query: return`
should_handle(query) == query # ""

inline_convert(query, id, e) ==
  IF ~should_handle(query) THEN Handled(NoDispatch, <<>>, <<>>, <<>>, FALSE)
  ELSE LET r == inline_cards(query, e) IN
       Handled(r.dispatch, <<>>, <<[id |-> id, results |-> r.cards]>>, r.log,
               e.send = "raise")

(* ---------------- the state machine ---------------- *)
NoUpdate == [kind |-> "none", text |-> "", id |-> ""]

IdleEnv == CHOOSE e \in StartEnvs : e.send = "ok"

Init ==
  /\ pc = "idle"
  /\ update = NoUpdate
  /\ env = IdleEnv
  /\ dispatch = NoDispatch
  /\ replies = <<>>
  /\ answers = <<>>
  /\ log = <<>>
  /\ escaped = FALSE

Record(u, e, h) ==
  /\ pc' = "done"
  /\ update' = u
  /\ env' = e
  /\ dispatch' = h.dispatch
  /\ replies' = h.replies
  /\ answers' = h.answers
  /\ log' = h.log
  /\ escaped' = h.escaped

Start ==
  /\ pc = "idle"
  /\ \E e \in StartEnvs :
       Record([kind |-> "start", text |-> "/start", id |-> ""], e, start(e))

HandleMessage ==
  /\ pc = "idle"
  /\ \E text \in Texts \ {""}, e \in Envs :
       Record([kind |-> "message", text |-> text, id |-> ""], e, handle_message(text, e))

InlineConvert ==
  /\ pc = "idle"
  /\ \E query \in Texts, id \in QueryIds, e \in Envs :
       Record([kind |-> "inline", text |-> query, id |-> id], e,
              inline_convert(query, id, e))

\* the handler has ended; the dispatcher takes the next update
NextUpdate ==
  /\ pc = "done"
  /\ pc' = "idle"
  /\ update' = NoUpdate
  /\ env' = IdleEnv
  /\ dispatch' = NoDispatch
  /\ replies' = <<>>
  /\ answers' = <<>>
  /\ log' = <<>>
  /\ escaped' = FALSE

Next == Start \/ HandleMessage \/ InlineConvert \/ NextUpdate

Spec == Init /\ [][Next]_vars

(* ---------------- properties ---------------- *)
Recognized == from_service(env) \in {"spotify", "youtube_music"}

ConverterRaises == env.byNames = "raise" \/ env.conv.kind = "raise"

Cards == answers[1].results

IsErrorCard(c) == c.title = ErrorTitle

\* C1: convert_link never raises outward: whatever the collaborators do, it
\* returns a MusicItem or one of its three error strings.
C1_NeverRaises ==
  dispatch.called =>
    /\ ~dispatch.raised
    /\ dispatch.isStr => dispatch.text \in {UnsupportedMsg, NoResultsMsg, ConvErrorMsg}

\* C2: the answer to a non-empty inline query holds 1 to 3 cards: min(n, 3)
\* result cards carrying the candidates' urls in order when dispatch returned
\* an item out of n candidates, exactly one error card when dispatch failed
\* or raised.
C2_InlineCards ==
  (pc = "done" /\ update.kind = "inline" /\ update.text # "") =>
    /\ Len(answers) = 1
    /\ Len(Cards) \in 1..MaxCards
    /\ (~dispatch.raised /\ ~dispatch.isStr) =>
         /\ Len(Cards) = Min(Len(env.conv.results), MaxCards)
         /\ \A k \in 1..Len(Cards) :
              /\ ~IsErrorCard(Cards[k])
              /\ Cards[k].content = env.conv.results[k].url
    /\ (dispatch.raised \/ dispatch.isStr) =>
         /\ Len(Cards) = 1
         /\ IsErrorCard(Cards[1])

\* C3: no exception leaves handle_message or inline_convert.
C3_NothingEscapes ==
  (pc = "done" /\ update.kind \in {"message", "inline"}) => ~escaped

\* C4: handle_message dispatches the full message text and sends exactly one
\* reply: the url of the first candidate when dispatch returned an item,
\* otherwise the error string dispatch returned.
C4_OneReply ==
  (pc = "done" /\ update.kind = "message") =>
    /\ dispatch.called
    /\ \A i \in 1..Len(dispatch.calls) : dispatch.calls[i].link = update.text
    /\ Len(replies) = 1
    /\ (~dispatch.raised /\ ~dispatch.isStr) => replies[1] = env.conv.results[1].url
    /\ dispatch.isStr => replies[1] = dispatch.text

\* C5: every call of answer_inline_query carries at most 3 cards.
C5_AtMostThreeCards ==
  \A i \in 1..Len(answers) : Len(answers[i].results) <= 3

C5_Witness ==
  /\ update.kind = "inline"
  /\ ~dispatch.isStr /\ ~dispatch.raised /\ dispatch.called
  /\ dispatch.item.hasResults /\ Len(dispatch.item.results) > 3
  /\ Len(answers) = 1 /\ Len(answers[1].results) = 3
  /\ \A k \in 1..3 : ~IsErrorCard(answers[1].results[k])

\* C6: the target service passed to Converter.by_names is the other one of
\* the two services: youtube_music for spotify, spotify for youtube_music.
C6_Complement ==
  /\ (dispatch.called /\ Recognized) =>
       /\ Len(dispatch.calls) = 1
       /\ dispatch.calls[1].from = from_service(env)
  /\ \A i \in 1..Len(dispatch.calls) :
       /\ dispatch.calls[i].to # dispatch.calls[i].from
       /\ dispatch.calls[i].from = "spotify" => dispatch.calls[i].to = "youtube_music"
       /\ dispatch.calls[i].from = "youtube_music" => dispatch.calls[i].to = "spotify"

C6_Witness ==
  /\ Len(dispatch.calls) = 1
  /\ env.sp = "false" /\ env.yt = "true"
  /\ dispatch.calls[1].from = "youtube_music"
  /\ dispatch.calls[1].to = "spotify"

\* C7: when the converter raises for a recognized link, convert_link logs the
\* exception and returns the generic conversion-error message; the exception
\* does not leave convert_link and its text is not in the returned value.
C7_ConverterRaises ==
  (dispatch.called /\ Recognized /\ ConverterRaises) =>
    /\ ~dispatch.raised
    /\ dispatch.isStr
    /\ dispatch.text = ConvErrorMsg
    /\ dispatch.text # env.exc
    /\ dispatch.log = <<[msg |-> ConvLogPrefix, exc |-> env.exc]>>

C7_Witness ==
  /\ dispatch.called /\ Recognized
  /\ env.byNames = "ok" /\ env.conv.kind = "raise"
  /\ dispatch.text = ConvErrorMsg
  /\ Len(dispatch.log) = 1

\* C8: a link that neither service's detect accepts yields the
\* unsupported-link message and no exception.
C8_Unsupported ==
  (dispatch.called /\ env.sp = "false" /\ env.yt = "false") =>
    /\ ~dispatch.raised
    /\ dispatch.isStr
    /\ dispatch.text = UnsupportedMsg

C8_Witness ==
  /\ dispatch.called /\ env.sp = "false" /\ env.yt = "false"
  /\ update.text = "not a link"
  /\ dispatch.text = UnsupportedMsg

C9_EmptyOrFirst ==
  (dispatch.called /\ Recognized /\ ~ConverterRaises /\ env.conv.kind = "result") =>
    /\ ~dispatch.raised
    /\ env.conv.results = <<>> => (dispatch.isStr /\ dispatch.text = NoResultsMsg)
    /\ env.conv.results # <<>> =>
         (~dispatch.isStr /\ dispatch.item = env.conv.results[1])

C9_ItemOnlyFromList ==
  (dispatch.called /\ ~dispatch.raised /\ ~dispatch.isStr) =>
    /\ env.conv.kind = "result"
    /\ Len(env.conv.results) > 0
    /\ dispatch.item = env.conv.results[1]

\* C9: an empty result list for a recognized link yields the no-results
\* message; an item is returned only for a non-empty list (and then always),
\* and it is the list's first element.
C9_Theorem == C9_EmptyOrFirst /\ C9_ItemOnlyFromList

C9_Witness ==
  /\ dispatch.called /\ Recognized /\ ~ConverterRaises
  /\ env.conv.kind = "result" /\ env.conv.results = <<>>
  /\ dispatch.text = NoResultsMsg

\* C10: inline_convert answers a query at most once, and exactly when the
\* query string is non-empty: an empty query causes no dispatch and no
\* answer, a non-empty one exactly one answer_inline_query call with the
\* query's id, whatever dispatch returned or raised.
C10_AnswerOnceIffNonEmpty ==
  (pc = "done" /\ update.kind = "inline") =>
    /\ Len(answers) <= 1
    /\ update.text = "" => (answers = <<>> /\ ~dispatch.called)
    /\ update.text # "" =>
         (Len(answers) = 1 /\ answers[1].id = update.id /\ dispatch.called)

C10_Witness ==
  /\ pc = "done" /\ update.kind = "inline" /\ update.text # ""
  /\ dispatch.raised
  /\ Len(answers) = 1 /\ answers[1].id = update.id

C10_WitnessEmpty ==
  pc = "done" /\ update.kind = "inline" /\ update.text = "" /\ answers = <<>>

====
